---- MODULE Spec2Model ----
(***************************************************************************)
(* Escalation state machine of the Oni Coach worker: the Schedule          *)
(* lifecycle driven by PunishmentWorker.process_schedule, the ignore-mode  *)
(* and no-mode detectors, the stimulus sender and the punishment /         *)
(* action-log tables they write.  Times are seconds, as in the source.     *)
(***************************************************************************)
EXTENDS Integers, FiniteSets, Bags, TLC, Sequences

(***************************************************************************)
(* Bounds of the model.                                                    *)
(***************************************************************************)
Tick == 300
Horizon == 900
MaxPunishments == 2
MaxCrashes == 1
MaxLogActions == 1
MaxIndex == 10
MaxSchedules == 3
PlanHorizon == 600

(***************************************************************************)
(* Program constants.                                                      *)
(***************************************************************************)
SecondsPerDay == 86400
SecondsPerMinute == 60
DefaultIgnoreInterval == 900
DefaultIgnoreMaxRetry == 5
DefaultZapLimit == 100
DefaultTimeoutRemind == 600
DefaultRetryDelay == 5
max_retry == 3

Min(a, b) == IF a <= b THEN a ELSE b

(***************************************************************************)
(* The clock value the model starts from: late enough in a calendar day    *)
(* that a schedule fired earlier the same day is already overdue.          *)
(***************************************************************************)
InitNow == 3 * 3600
MaxTime == InitNow + Horizon

Users == {"u1", "u2"}
ScheduleState == {"pending", "processing", "done", "skipped", "failed", "canceled"}
EventType == {"plan", "remind"}
ActionResult == {"YES", "NO", "AUTO_IGNORE"}
PunishmentMode == {"ignore", "no", "zap", "vibe"}

(***************************************************************************)
(* Environment variables read by get_config.  A variable is unset, holds   *)
(* a decimal numeral, or holds text that int() rejects.                    *)
(***************************************************************************)
Unset == [kind |-> "unset", n |-> 0]
Bad == [kind |-> "bad", n |-> 0]
Num(k) == [kind |-> "num", n |-> k]
Env(interval, retries, limit) ==
  [IGNORE_INTERVAL |-> interval, IGNORE_MAX_RETRY |-> retries,
   LIMIT_DAY_PAVLOK_COUNTS |-> limit, RETRY_DELAY |-> Unset]
EnvChoices ==
  {Env(Num(0), Unset, Bad), Env(Unset, Num(2), Num(1))}

VARIABLES now, env, schedules, punishments, action_logs,
          deliveries, failed_send, crashes, log_calls, last,
          moves, system_paused, commitments, cycle, policy, pc,
          configurations

(***************************************************************************)
(* moves: the schedule state assignments (from, to) made by the last step. *)
(* system_paused: the stored SYSTEM_PAUSED flag.  commitments: the         *)
(* commitments table.  cycle: the record of the last run_once.  policy:    *)
(* the last two calls of the punishment policy.  pc: where each of the     *)
(* concurrent workers stands inside process_schedule or detect_no_mode.    *)
(* configurations: the stored daily cap of each user.                      *)
(***************************************************************************)
vars == <<now, env, schedules, punishments, action_logs,
          deliveries, failed_send, crashes, log_calls, last,
          moves, system_paused, commitments, cycle, policy, pc,
          configurations>>

cycleVars == <<system_paused, commitments, cycle>>

(***************************************************************************)
(* get_config(key, default) without a session: the environment value       *)
(* (a string) when the variable is set, the default otherwise.             *)
(***************************************************************************)
get_config(value, default) ==
  IF value.kind = "unset" THEN Num(default) ELSE value

_safe_int(value, default) ==
  IF value.kind = "num" THEN value.n ELSE default

config_interval ==
  LET v == _safe_int(get_config(env.IGNORE_INTERVAL, DefaultIgnoreInterval),
                     DefaultIgnoreInterval)
  IN IF v <= 0 THEN DefaultIgnoreInterval ELSE v

ignore_max_retry ==
  LET v == _safe_int(get_config(env.IGNORE_MAX_RETRY, DefaultIgnoreMaxRetry),
                     DefaultIgnoreMaxRetry)
  IN IF v <= 0 THEN 1 ELSE v

zap_limit ==
  LET v == _safe_int(get_config(env.LIMIT_DAY_PAVLOK_COUNTS, DefaultZapLimit),
                     DefaultZapLimit)
  IN IF v <= 0 THEN 1 ELSE v

timeout_remind == DefaultTimeoutRemind

(***************************************************************************)
(* get_config("RETRY_DELAY", 5, session) with no Configuration row: the    *)
(* int default, or the environment value, which is a str and which         *)
(* timedelta(minutes=...) rejects with a TypeError.                        *)
(***************************************************************************)
retry_delay == get_config(env.RETRY_DELAY, DefaultRetryDelay)

retry_delay_is_str == env.RETRY_DELAY.kind # "unset"

(***************************************************************************)
(* configurations: per user, the value of the stored Configuration row    *)
(* with key LIMIT_DAY_PAVLOK_COUNTS (Unset when the user has no such row). *)
(* The detectors call get_config without a session, so no read above       *)
(* depends on it; the cache entry of such a key only ever holds the        *)
(* environment value, which is fixed for the life of the process.          *)
(***************************************************************************)
MaxCap == 2

NoConfigurations == [u \in Users |-> Unset]

(***************************************************************************)
(* Punishment policy.                                                      *)
(***************************************************************************)
calculate_ignore_punishment_step_five(ignore_time) ==
  IF ignore_time <= 1
  THEN [type |-> "vibe", value |-> 100]
  ELSE [type |-> "zap", value |-> Min(35 + 5 * (ignore_time - 2), 100)]

calculate_ignore_punishment_unclamped(ignore_time) ==
  IF ignore_time <= 1
  THEN [type |-> "vibe", value |-> 100]
  ELSE [type |-> "zap", value |-> 35 + 10 * (ignore_time - 2)]

calculate_ignore_punishment_zap_first(ignore_time) ==
  [type |-> "zap", value |-> Min(35 + 10 * (ignore_time - 1), 100)]

calculate_ignore_punishment(ignore_time) ==
  IF ignore_time <= 1
  THEN [type |-> "vibe", value |-> 100]
  ELSE [type |-> "zap", value |-> Min(35 + 10 * (ignore_time - 2), 100)]

zap_values == <<35, 55, 75, 100>>

calculate_no_punishment_off_by_one(no_time) ==
  LET index == Min(no_time, 4 - 1)
  IN [mode |-> "no", value |-> zap_values[index + 1]]

calculate_no_punishment_as_ignore(no_time) ==
  LET index == Min(no_time - 1, 4 - 1)
  IN [mode |-> "ignore", value |-> zap_values[index + 1]]

calculate_no_punishment(no_time) ==
  LET index == Min(no_time - 1, 4 - 1)
  IN [mode |-> "no", value |-> zap_values[index + 1]]

(***************************************************************************)
(* Store queries.                                                          *)
(***************************************************************************)
Day(t) == t \div SecondsPerDay

Rows(B, P(_)) == BagCardinality([r \in {q \in BagToSet(B) : P(q)} |-> B[r]])

PunishmentRows(pun, sid, mode, count) ==
  LET Match(r) == r.schedule_id = sid /\ r.mode = mode /\ r.count = count
  IN Rows(pun, Match)

LogRows(logs, sid, result) ==
  LET Match(r) == r.schedule_id = sid /\ r.result = result
  IN Rows(logs, Match)

_count_today_zap_executions_ignore_only(scheds, pun, user_id, t) ==
  LET Match(r) ==
        /\ r.schedule_id \in DOMAIN scheds
        /\ scheds[r.schedule_id].user_id = user_id
        /\ r.created_at = Day(t)
        /\ r.mode = "ignore" /\ r.count >= 2
  IN Rows(pun, Match)

_count_today_zap_executions(scheds, pun, user_id, t) ==
  LET Match(r) ==
        /\ r.schedule_id \in DOMAIN scheds
        /\ scheds[r.schedule_id].user_id = user_id
        /\ r.created_at = Day(t)
        /\ \/ r.mode = "no"
           \/ r.mode = "ignore" /\ r.count >= 2
  IN Rows(pun, Match)

elapsed_seconds(scheds, sid, t) == t - scheds[sid].run_at

Punishment(sid, mode, count, t) ==
  [schedule_id |-> sid, mode |-> mode, count |-> count, created_at |-> Day(t)]

ActionLog(sid, result) == [schedule_id |-> sid, result |-> result]

(***************************************************************************)
(* Outcome records of the detector calls.                                  *)
(***************************************************************************)
IgnoreNotCalled ==
  [called |-> FALSE, detected |-> FALSE, ignore_time |-> 0, send |-> "none",
   type |-> "none", value |-> 0, delivered |-> FALSE, crashed |-> FALSE]

NoNotCalled == [called |-> FALSE, detected |-> FALSE, no_time |-> 0]

IgnoreResult(st, detected, ignore_time, send, type, value, response, crashed) ==
  [st |-> st,
   out |-> [called |-> TRUE, detected |-> detected, ignore_time |-> ignore_time,
            send |-> send, type |-> type, value |-> value,
            delivered |-> (send # "none" /\ response = "success"),
            crashed |-> crashed]]

NoResult(st, detected, no_time) ==
  [st |-> st,
   out |-> [called |-> TRUE, detected |-> detected, no_time |-> no_time]]

(***************************************************************************)
(* _mark_auto_ignore_once: cancel the schedule and append the AUTO_IGNORE   *)
(* log unless the schedule already has one.                                *)
(***************************************************************************)
_mark_auto_ignore_unguarded(st, sid) ==
  [st EXCEPT
     !.schedules[sid].state = "canceled",
     !.action_logs = @ (+) SetToBag({ActionLog(sid, "AUTO_IGNORE")})]

_mark_auto_ignore_once(st, sid) ==
  [st EXCEPT
     !.schedules[sid].state = "canceled",
     !.action_logs =
        IF LogRows(st.action_logs, sid, "AUTO_IGNORE") > 0
        THEN @
        ELSE @ (+) SetToBag({ActionLog(sid, "AUTO_IGNORE")})]

(***************************************************************************)
(* _send_punishment: True only when PavlokClient.stimulate returned a      *)
(* dict whose "success" entry is true; an exception gives False.           *)
(***************************************************************************)
SenderResponses == {"success", "failure", "exception"}

_send_punishment_any_dict(response) == response # "exception"

_send_punishment(response) == response = "success"

trigger_index_rounded_up(elapsed, interval) ==
  (elapsed + interval - 1) \div interval

trigger_index(elapsed, interval) == elapsed \div interval

existing_same_trigger_no_mode(pun, sid, ignore_time) ==
  PunishmentRows(pun, sid, "no", ignore_time) > 0

existing_same_trigger(pun, sid, ignore_time) ==
  PunishmentRows(pun, sid, "ignore", ignore_time) > 0

(***************************************************************************)
(* detect_ignore_mode(session, schedule) at clock value t.  response is    *)
(* what the Pavlok client does when asked; crash says that the process     *)
(* dies after the sender returned and before session.commit(), so that     *)
(* the session's pending writes are lost while the stimulus has been       *)
(* delivered.                                                              *)
(***************************************************************************)
detect_ignore_mode(st, sid, t, response, crash) ==
  LET elapsed == elapsed_seconds(st.schedules, sid, t)
      ignore_time == trigger_index(elapsed, config_interval)
      punishment_data == calculate_ignore_punishment(ignore_time)
      stimulus_type == punishment_data.type
      value == punishment_data.value
      zap_count == _count_today_zap_executions(st.schedules, st.punishments,
                                               st.schedules[sid].user_id, t)
      sent == _send_punishment(response)
      added == [st EXCEPT !.punishments =
                  @ (+) SetToBag({Punishment(sid, "ignore", ignore_time, t)})]
  IN
  IF elapsed < config_interval
  THEN IgnoreResult(st, FALSE, 0, "none", "none", 0, response, FALSE)
  ELSE IF existing_same_trigger(st.punishments, sid, ignore_time)
  THEN IgnoreResult(st, TRUE, ignore_time, "none", "none", 0, response, FALSE)
  ELSE IF ignore_time > ignore_max_retry
  THEN IgnoreResult(_mark_auto_ignore_once(st, sid), TRUE, ignore_time,
                    "none", "none", 0, response, FALSE)
  ELSE IF stimulus_type = "zap" /\ zap_count >= zap_limit
  THEN IgnoreResult(st, TRUE, ignore_time, "none", "none", 0, response, FALSE)
  ELSE IF ~sent
  THEN IgnoreResult(st, FALSE, ignore_time, "failed", stimulus_type, value,
                    response, FALSE)
  ELSE IF crash
  THEN IgnoreResult(st, FALSE, ignore_time, "sent", stimulus_type, value,
                    response, TRUE)
  ELSE IF stimulus_type = "zap" /\ value >= 100
  THEN IgnoreResult(_mark_auto_ignore_once(added, sid), TRUE, ignore_time,
                    "sent", stimulus_type, value, response, FALSE)
  ELSE IgnoreResult(added, TRUE, ignore_time, "sent", stimulus_type, value,
                    response, FALSE)

(***************************************************************************)
(* detect_no_mode(session, schedule) at clock value t.                     *)
(***************************************************************************)
yes_log_any_answer(logs, sid) == LogRows(logs, sid, "NO") > 0

yes_log(logs, sid) == LogRows(logs, sid, "YES") > 0

existing_ignore_mode(pun, sid, no_time) ==
  PunishmentRows(pun, sid, "ignore", no_time) > 0

existing(pun, sid, no_time) == PunishmentRows(pun, sid, "no", no_time) > 0

detect_no_mode(st, sid, t) ==
  LET elapsed == elapsed_seconds(st.schedules, sid, t)
      no_time == elapsed \div timeout_remind
      punishment_data == calculate_no_punishment(no_time)
  IN
  IF elapsed < timeout_remind
  THEN NoResult(st, FALSE, 0)
  ELSE IF yes_log(st.action_logs, sid)
  THEN NoResult(st, FALSE, 0)
  ELSE IF existing(st.punishments, sid, no_time)
  THEN NoResult(st, TRUE, no_time)
  ELSE NoResult([st EXCEPT !.punishments =
                   @ (+) SetToBag({Punishment(sid, punishment_data.mode,
                                              no_time, t)})],
                TRUE, no_time)

(***************************************************************************)
(* The state assignment from -> to, when it changes the state.             *)
(***************************************************************************)
Move(from, to) == IF from = to THEN {} ELSE {<<from, to>>}

(***************************************************************************)
(* The store as the detectors and the worker see it.                       *)
(***************************************************************************)
Store ==
  [schedules |-> schedules, punishments |-> punishments,
   action_logs |-> action_logs]

Schedule(user_id, event_type, run_at) ==
  [user_id |-> user_id, event_type |-> event_type, run_at |-> run_at,
   state |-> "pending", retry_count |-> 0]

NoFailedSend == <<0, 0>>

NoCall == [op |-> "none", sid |-> 0, ig |-> IgnoreNotCalled,
           nm |-> NoNotCalled, raised |-> FALSE, repeat |-> FALSE]

(***************************************************************************)
(* The record of a run_once cycle: the schedule bootstrap inserted (0 for  *)
(* none), whether bootstrap raised, the schedules fetched, those handed to *)
(* process_schedule, and whether an exception left run_once.               *)
(***************************************************************************)
NoCycle == [boot |-> 0, boot_failed |-> FALSE, fetched |-> {},
            processed |-> {}, escaped |-> FALSE]

(***************************************************************************)
(* The record of the last two calls of the punishment policy.              *)
(***************************************************************************)
NoPolicy == [fn |-> "none", arg |-> 0, type |-> "none", value |-> 0,
             prev_fn |-> "none", prev_arg |-> 0, prev_value |-> 0]

(***************************************************************************)
(* Worker processes sharing the store, and where one stands inside         *)
(* detect_no_mode: Idle outside it, or between the lookup of the existing  *)
(* row and the insert, with the schedule and the trigger index it holds.   *)
(***************************************************************************)
Workers == {"w1", "w2"}

Idle == [at |-> "idle", sid |-> 0, no_time |-> 0]

(***************************************************************************)
(* The record of the call just made; repeat says that it directly follows  *)
(* a call of the same operation on the same schedule at the same time.     *)
(***************************************************************************)
Call(op, sid, ig, nm, raised) ==
  [op |-> op, sid |-> sid, ig |-> ig, nm |-> nm, raised |-> raised,
   repeat |-> (last.op = op /\ last.sid = sid)]

(***************************************************************************)
(* Initial state: the worker comes up on a store holding a PLAN schedule   *)
(* of u1 that fell due half an hour ago and a REMIND schedule that fell    *)
(* due ten minutes ago, both still PENDING, no punishment and no action    *)
(* log; the environment is fixed for the life of the process.              *)
(***************************************************************************)
Init ==
  /\ now = InitNow
  /\ env \in EnvChoices
  /\ \E u2 \in Users :
        schedules = (1 :> Schedule("u1", "plan", InitNow - 1800))
                    @@ (2 :> Schedule(u2, "remind", InitNow - 600))
  /\ punishments = EmptyBag
  /\ action_logs = EmptyBag
  /\ deliveries = EmptyBag
  /\ failed_send = NoFailedSend
  /\ crashes = 0
  /\ log_calls = 0
  /\ last = NoCall
  /\ moves = {}
  /\ system_paused = FALSE
  /\ commitments = {}
  /\ cycle = NoCycle
  /\ policy = NoPolicy
  /\ pc = [w \in Workers |-> Idle]
  /\ configurations = NoConfigurations

(***************************************************************************)
(* Deliveries made by the stimulus sender, per (schedule, trigger index).  *)
(***************************************************************************)
DeliveredTo(d, out, sid) ==
  IF out.delivered
  THEN d (+) SetToBag({<<sid, out.ignore_time>>})
  ELSE d

Delivered(out, sid) == DeliveredTo(deliveries, out, sid)

(***************************************************************************)
(* The trigger index whose delivery failed most recently and has not been  *)
(* delivered since.                                                        *)
(***************************************************************************)
FailedSendAfter(f, out, sid) ==
  IF out.send = "failed"
  THEN <<sid, out.ignore_time>>
  ELSE IF out.send = "sent" /\ f = <<sid, out.ignore_time>>
  THEN NoFailedSend
  ELSE f

FailedSend(out, sid) == FailedSendAfter(failed_send, out, sid)

CrashAllowed(crash) == crash => crashes < MaxCrashes

RoomForPunishment == BagCardinality(punishments) < MaxPunishments

(***************************************************************************)
(* A direct call of detect_ignore_mode on a schedule.                      *)
(***************************************************************************)
DetectIgnore(sid, response, crash) ==
  LET r == detect_ignore_mode(Store, sid, now, response, crash)
  IN /\ sid \in DOMAIN schedules
     /\ CrashAllowed(crash)
     /\ RoomForPunishment
     /\ schedules' = r.st.schedules
     /\ punishments' = r.st.punishments
     /\ action_logs' = r.st.action_logs
     /\ deliveries' = Delivered(r.out, sid)
     /\ failed_send' = FailedSend(r.out, sid)
     /\ crashes' = IF r.out.crashed THEN crashes + 1 ELSE crashes
     /\ last' = Call("detect_ignore_mode", sid, r.out, NoNotCalled, FALSE)
     /\ moves' = Move(schedules[sid].state, r.st.schedules[sid].state)
     /\ UNCHANGED <<now, env, log_calls, cycleVars, policy, pc, configurations>>

(***************************************************************************)
(* A direct call of detect_no_mode on a schedule.                          *)
(***************************************************************************)
DetectNo(sid) ==
  LET r == detect_no_mode(Store, sid, now)
  IN /\ sid \in DOMAIN schedules
     /\ RoomForPunishment
     /\ schedules' = r.st.schedules
     /\ punishments' = r.st.punishments
     /\ action_logs' = r.st.action_logs
     /\ last' = Call("detect_no_mode", sid, IgnoreNotCalled, r.out, FALSE)
     /\ moves' = {}
     /\ UNCHANGED <<now, env, deliveries, failed_send, crashes, log_calls,
                    cycleVars, policy, pc, configurations>>

(***************************************************************************)
(* PunishmentWorker.process_schedule on a schedule that                    *)
(* fetch_pending_schedules returns.  scriptOk is the outcome of            *)
(* execute_script.                                                         *)
(***************************************************************************)
fetch_pending_schedules_any_time(scheds, t) ==
  {sid \in DOMAIN scheds : scheds[sid].state = "pending"}

fetch_pending_schedules(scheds, t) ==
  {sid \in DOMAIN scheds : scheds[sid].state = "pending" /\ scheds[sid].run_at <= t}

(***************************************************************************)
(* The except branch of process_schedule.  FailurePathEscapes: the         *)
(* handler itself raises, at timedelta(minutes=retry_delay), before its    *)
(* commit; the session keeps the schedule FAILED with the incremented      *)
(* retry_count and writes that with its next flush.                        *)
(***************************************************************************)
FailurePathEscapes(st, sid) ==
  st.schedules[sid].retry_count + 1 < max_retry /\ retry_delay_is_str

FailurePath_retry_at_limit(st, sid, t) ==
  LET count == st.schedules[sid].retry_count + 1
  IN IF count <= max_retry /\ ~retry_delay_is_str
     THEN [st EXCEPT !.schedules[sid].retry_count = count,
                     !.schedules[sid].run_at = t + retry_delay.n * SecondsPerMinute,
                     !.schedules[sid].state = "pending"]
     ELSE [st EXCEPT !.schedules[sid].retry_count = count,
                     !.schedules[sid].state = "failed"]

FailurePath(st, sid, t) ==
  LET count == st.schedules[sid].retry_count + 1
  IN IF count < max_retry /\ ~retry_delay_is_str
     THEN [st EXCEPT !.schedules[sid].retry_count = count,
                     !.schedules[sid].run_at = t + retry_delay.n * SecondsPerMinute,
                     !.schedules[sid].state = "pending"]
     ELSE [st EXCEPT !.schedules[sid].retry_count = count,
                     !.schedules[sid].state = "failed"]

(***************************************************************************)
(* The end of the try block: a REMIND schedule is marked DONE, a PLAN      *)
(* schedule is left as the detectors left it.                              *)
(***************************************************************************)
mark_done_any_event(st, sid) == [st EXCEPT !.schedules[sid].state = "done"]

mark_done(st, sid) ==
  IF st.schedules[sid].event_type = "remind"
  THEN [st EXCEPT !.schedules[sid].state = "done"]
  ELSE st

process_schedule(st, sid, t, scriptOk, response, crash) ==
  LET st1 == [st EXCEPT !.schedules[sid].state = "processing"]
      ig == detect_ignore_mode(st1, sid, t, response, crash)
      nm == detect_no_mode(ig.st, sid, t)
      st3 == mark_done(nm.st, sid)
      failed == FailurePath(st1, sid, t)
      entered == Move(st.schedules[sid].state, "processing")
  IN IF ~scriptOk
     THEN [st |-> failed, ig |-> IgnoreNotCalled,
           nm |-> NoNotCalled, raised |-> TRUE,
           escaped |-> FailurePathEscapes(st1, sid),
           moves |-> entered \cup {<<"processing", "failed">>}
                     \cup Move("failed", failed.schedules[sid].state)]
     ELSE IF ig.out.crashed
     THEN [st |-> st1, ig |-> ig.out, nm |-> NoNotCalled, raised |-> FALSE,
           escaped |-> FALSE, moves |-> entered]
     ELSE [st |-> st3, ig |-> ig.out, nm |-> nm.out, raised |-> FALSE,
           escaped |-> FALSE,
           moves |-> entered
                     \cup Move("processing", nm.st.schedules[sid].state)
                     \cup Move(nm.st.schedules[sid].state,
                               st3.schedules[sid].state)]

ProcessSchedule(sid, scriptOk, response, crash) ==
  LET r == process_schedule(Store, sid, now, scriptOk, response, crash)
  IN /\ sid \in fetch_pending_schedules(schedules, now)
     /\ CrashAllowed(crash)
     /\ RoomForPunishment
     /\ schedules' = r.st.schedules
     /\ punishments' = r.st.punishments
     /\ action_logs' = r.st.action_logs
     /\ deliveries' = Delivered(r.ig, sid)
     /\ failed_send' = FailedSend(r.ig, sid)
     /\ crashes' = IF r.ig.crashed THEN crashes + 1 ELSE crashes
     /\ last' = Call("process_schedule", sid, r.ig, r.nm, r.raised)
     /\ moves' = r.moves
     /\ UNCHANGED <<now, env, log_calls, cycleVars, policy, pc, configurations>>

(***************************************************************************)
(* BehaviorLogger.log_action: the user's answer to a prompt is recorded.   *)
(***************************************************************************)
LogAction(sid, result) ==
  /\ sid \in DOMAIN schedules
  /\ log_calls < MaxLogActions
  /\ action_logs' = action_logs (+) SetToBag({ActionLog(sid, result)})
  /\ log_calls' = log_calls + 1
  /\ last' = [NoCall EXCEPT !.op = "log_action", !.sid = sid]
  /\ moves' = {}
  /\ UNCHANGED <<now, env, schedules, punishments, deliveries, failed_send,
                 crashes, cycleVars, policy, pc, configurations>>

(***************************************************************************)
(* The clock advances.                                                     *)
(***************************************************************************)
AdvanceWithin(horizon) ==
  /\ now + Tick <= InitNow + horizon
  /\ now' = now + Tick
  /\ last' = NoCall
  /\ moves' = {}
  /\ cycle' = NoCycle
  /\ UNCHANGED <<env, schedules, punishments, action_logs, deliveries,
                 failed_send, crashes, log_calls, system_paused, commitments,
                 policy, pc, configurations>>

Advance == AdvanceWithin(Horizon)

(***************************************************************************)
(* _save_user_configs(user_id, {LIMIT_DAY_PAVLOK_COUNTS: new_value}): the  *)
(* /config command stores a new daily cap for the user; an update equal to *)
(* the stored value changes nothing.                                       *)
(***************************************************************************)
SaveUserConfigs(user_id, new_value) ==
  /\ configurations[user_id] # Num(new_value)
  /\ configurations' = [configurations EXCEPT ![user_id] = Num(new_value)]
  /\ last' = Call("_save_user_configs", 0, IgnoreNotCalled, NoNotCalled,
                  FALSE)
  /\ moves' = {}
  /\ UNCHANGED <<now, env, schedules, punishments, action_logs, deliveries,
                 failed_send, crashes, log_calls, cycleVars, policy, pc>>

(***************************************************************************)
(* The worker program: schedules are processed as they fall due, users     *)
(* answer, time passes.                                                    *)
(***************************************************************************)
Next ==
  \/ \E sid \in DOMAIN schedules, scriptOk \in BOOLEAN,
        response \in SenderResponses, crash \in BOOLEAN :
           ProcessSchedule(sid, scriptOk, response, crash)
  \/ \E sid \in DOMAIN schedules, result \in {"YES", "NO"} : LogAction(sid, result)
  \/ Advance

Spec == Init /\ [][Next]_vars

(***************************************************************************)
(* The worker program as run() drives it: run_once is called once a        *)
(* minute for as long as the process lives, so with scripts that succeed   *)
(* and a working sender a schedule that stays due and PENDING is           *)
(* eventually processed, and the clock keeps moving up to the horizon.     *)
(* The environment leaves the interval, the max-retry and the daily cap at *)
(* their defaults (900 s, 5 and 100); both schedules belong to u1; the      *)
(* sender works and the process does not die.                              *)
(***************************************************************************)
InitLoop ==
  /\ Init
  /\ env = Env(Num(0), Unset, Bad)
  /\ \A sid \in DOMAIN schedules : schedules[sid].user_id = "u1"

NextLoop ==
  \/ \E sid \in DOMAIN schedules, scriptOk \in BOOLEAN :
        ProcessSchedule(sid, scriptOk, "success", FALSE)
  \/ \E sid \in DOMAIN schedules, result \in {"YES", "NO"} : LogAction(sid, result)
  \/ Advance

SpecLoop ==
  /\ InitLoop
  /\ [][NextLoop]_vars
  /\ WF_vars(\E sid \in DOMAIN schedules :
               ProcessSchedule(sid, TRUE, "success", FALSE))
  /\ WF_vars(Advance)

(***************************************************************************)
(* The worker program around midnight, as run() drives it.  It is 23:50,   *)
(* the environment sets the daily cap to 1, both schedules belong to u1:   *)
(* a PLAN that fell due half an hour ago and a REMIND that fell due ten    *)
(* minutes ago.  The sender works and the process does not die.  The clock *)
(* runs to 00:05 of the next day.                                          *)
(***************************************************************************)
RolloverStart == SecondsPerDay - 2 * Tick

RolloverHorizon == SecondsPerDay + Tick - InitNow

InitRollover ==
  /\ now = RolloverStart
  /\ env = Env(Unset, Unset, Num(1))
  /\ schedules = (1 :> Schedule("u1", "plan", RolloverStart - 1800))
                 @@ (2 :> Schedule("u1", "remind", RolloverStart - 600))
  /\ punishments = EmptyBag
  /\ action_logs = EmptyBag
  /\ deliveries = EmptyBag
  /\ failed_send = NoFailedSend
  /\ crashes = 0
  /\ log_calls = 0
  /\ last = NoCall
  /\ moves = {}
  /\ system_paused = FALSE
  /\ commitments = {}
  /\ cycle = NoCycle
  /\ policy = NoPolicy
  /\ pc = [w \in Workers |-> Idle]
  /\ configurations = NoConfigurations

NextRollover ==
  \/ \E sid \in DOMAIN schedules, scriptOk \in BOOLEAN :
        ProcessSchedule(sid, scriptOk, "success", FALSE)
  \/ AdvanceWithin(RolloverHorizon)

SpecRollover ==
  /\ InitRollover
  /\ [][NextRollover]_vars
  /\ WF_vars(\E sid \in DOMAIN schedules :
               ProcessSchedule(sid, TRUE, "success", FALSE))
  /\ WF_vars(AdvanceWithin(RolloverHorizon))

(***************************************************************************)
(* The detectors called on their own, as their callers and the test suite  *)
(* may do at any time and any number of times for a schedule.              *)
(***************************************************************************)
NextDetect ==
  \/ \E sid \in DOMAIN schedules, response \in SenderResponses,
        crash \in BOOLEAN : DetectIgnore(sid, response, crash)
  \/ \E sid \in DOMAIN schedules : DetectNo(sid)
  \/ \E sid \in DOMAIN schedules, result \in {"YES", "NO"} : LogAction(sid, result)
  \/ Advance

SpecDetect == Init /\ [][NextDetect]_vars

(***************************************************************************)
(* The detectors with the /config command changing the stored daily cap.   *)
(* The worker's environment sets the cap to 1 and the max-retry to 2; both *)
(* schedules belong to u1.                                                 *)
(***************************************************************************)
InitConfig ==
  /\ Init
  /\ env = Env(Unset, Num(2), Num(1))
  /\ \A sid \in DOMAIN schedules : schedules[sid].user_id = "u1"

NextConfig ==
  \/ \E sid \in DOMAIN schedules, response \in SenderResponses,
        crash \in BOOLEAN : DetectIgnore(sid, response, crash)
  \/ \E sid \in DOMAIN schedules : DetectNo(sid)
  \/ \E user_id \in Users, new_value \in 1..MaxCap :
        SaveUserConfigs(user_id, new_value)
  \/ Advance

SpecConfig == InitConfig /\ [][NextConfig]_vars

(***************************************************************************)
(* The store's partial unique index on schedules: at most one PLAN row in  *)
(* state PENDING or PROCESSING per user and date(run_at).  A commit that   *)
(* would break it raises IntegrityError.                                   *)
(***************************************************************************)
uix_user_plan_date_pending_only(scheds) ==
  \A a, b \in DOMAIN scheds :
     (/\ a # b
      /\ scheds[a].event_type = "plan" /\ scheds[b].event_type = "plan"
      /\ scheds[a].state = "pending" /\ scheds[b].state = "pending")
     => ~(/\ scheds[a].user_id = scheds[b].user_id
          /\ Day(scheds[a].run_at) = Day(scheds[b].run_at))

uix_user_plan_date_active(scheds) ==
  \A a, b \in DOMAIN scheds :
     (/\ a # b
      /\ scheds[a].event_type = "plan" /\ scheds[b].event_type = "plan"
      /\ scheds[a].state \in {"pending", "processing"}
      /\ scheds[b].state \in {"pending", "processing"})
     => ~(/\ scheds[a].user_id = scheds[b].user_id
          /\ Day(scheds[a].run_at) = Day(scheds[b].run_at))

(***************************************************************************)
(* A new row gets a fresh id (a UUID in the store, the next number here);  *)
(* rows are never deleted.                                                 *)
(***************************************************************************)
NewId(scheds) == Cardinality(DOMAIN scheds) + 1

Insert(scheds, row) == scheds @@ (NewId(scheds) :> row)

(***************************************************************************)
(* _resolve_bootstrap_user_id: the owner of the most recently updated      *)
(* active commitment, "none" when there is no active commitment.           *)
(***************************************************************************)
Commitment(user_id, active, updated_at) ==
  [user_id |-> user_id, active |-> active, updated_at |-> updated_at]

_resolve_bootstrap_user_id(commits) ==
  LET active == {c \in commits : c.active}
  IN IF active = {} THEN "none"
     ELSE (CHOOSE c \in active :
             \A d \in active : d.updated_at <= c.updated_at).user_id

(***************************************************************************)
(* ensure_initial_plan_schedule at clock value t: the store afterwards and *)
(* the id of the schedule it inserted, 0 when it inserted none.            *)
(***************************************************************************)
in_flight_count(scheds) ==
  Cardinality({sid \in DOMAIN scheds :
                 scheds[sid].state \in {"pending", "processing"}})

existing_today_in_flight(scheds, user_id, t) ==
  \E sid \in DOMAIN scheds :
     /\ scheds[sid].user_id = user_id
     /\ scheds[sid].event_type = "plan"
     /\ scheds[sid].state \in {"pending", "processing"}
     /\ Day(scheds[sid].run_at) = Day(t)

existing_today(scheds, user_id, t) ==
  \E sid \in DOMAIN scheds :
     /\ scheds[sid].user_id = user_id
     /\ scheds[sid].event_type = "plan"
     /\ Day(scheds[sid].run_at) = Day(t)

ensure_initial_plan_schedule(st, commits, t) ==
  LET user_id == _resolve_bootstrap_user_id(commits)
  IN IF in_flight_count(st.schedules) > 0
     THEN [st |-> st, created |-> 0]
     ELSE IF user_id = "none"
     THEN [st |-> st, created |-> 0]
     ELSE IF existing_today(st.schedules, user_id, t)
     THEN [st |-> st, created |-> 0]
     ELSE [st |-> [st EXCEPT !.schedules =
                     Insert(@, Schedule(user_id, "plan", t))],
           created |-> NewId(st.schedules)]

(***************************************************************************)
(* The loop of run_once over the fetched schedules.  The query has no      *)
(* ORDER BY, so the rows come in any order; failing holds the schedules    *)
(* whose script fails; the loop ends early when an exception leaves        *)
(* process_schedule.                                                       *)
(***************************************************************************)
Orders(S) ==
  {f \in [1..Cardinality(S) -> S] :
     \A i, j \in 1..Cardinality(S) : f[i] = f[j] => i = j}

CycleStart(st) ==
  [st |-> st, deliveries |-> deliveries, failed_send |-> failed_send,
   processed |-> {}, moves |-> {}, escaped |-> FALSE]

process_one(acc, sid, t, failing, response) ==
  LET merged(r) ==
        [st |-> r.st,
         deliveries |-> DeliveredTo(acc.deliveries, r.ig, sid),
         failed_send |-> FailedSendAfter(acc.failed_send, r.ig, sid),
         processed |-> acc.processed \cup {sid},
         moves |-> acc.moves \cup r.moves,
         escaped |-> r.escaped]
  IN merged(process_schedule(acc.st, sid, t, sid \notin failing,
                             response, FALSE))

process_all(acc, order, t, failing, response) ==
  LET step(prev, sid) ==
        IF prev.escaped THEN prev
        ELSE process_one(prev, sid, t, failing, response)
      after[i \in 0..Len(order)] ==
        IF i = 0 THEN acc ELSE step(after[i - 1], order[i])
  IN after[Len(order)]

(***************************************************************************)
(* run_once at clock value t.  bootFails says that the store fails inside  *)
(* ensure_initial_plan_schedule, which run_once answers with a rollback;   *)
(* order is the order in which the store returns the fetched rows.         *)
(***************************************************************************)
run_once_bootstrap(st, commits, t, bootFails) ==
  IF bootFails THEN [st |-> st, created |-> 0]
  ELSE ensure_initial_plan_schedule(st, commits, t)

run_once(st, commits, t, bootFails, failing, response, order) ==
  LET ended(boot, done) ==
        [acc |-> done,
         cycle |-> [boot |-> boot.created, boot_failed |-> bootFails,
                    fetched |-> fetch_pending_schedules(boot.st.schedules, t),
                    processed |-> done.processed,
                    escaped |-> done.escaped]]
      looped(boot) ==
        ended(boot, process_all(CycleStart(boot.st), order, t, failing,
                                response))
  IN looped(run_once_bootstrap(st, commits, t, bootFails))

RunOnce(bootFails, failing, response) ==
  LET fetched ==
        fetch_pending_schedules(
          run_once_bootstrap(Store, commitments, now, bootFails).st.schedules,
          now)
      committed(r) ==
        /\ schedules' = r.acc.st.schedules
        /\ punishments' = r.acc.st.punishments
        /\ action_logs' = r.acc.st.action_logs
        /\ deliveries' = r.acc.deliveries
        /\ failed_send' = r.acc.failed_send
        /\ moves' = r.acc.moves
        /\ cycle' = r.cycle
        /\ last' = Call("run_once", 0, IgnoreNotCalled, NoNotCalled,
                        r.acc.escaped)
  IN /\ RoomForPunishment
     /\ failing \subseteq fetched
     /\ \E order \in Orders(fetched) :
           committed(run_once(Store, commitments, now, bootFails, failing,
                              response, order))
     /\ UNCHANGED <<now, env, crashes, log_calls, system_paused,
                    commitments, policy, pc, configurations>>

(***************************************************************************)
(* ensure_initial_plan_schedule called on its own.                         *)
(***************************************************************************)
Bootstrap ==
  LET r == ensure_initial_plan_schedule(Store, commitments, now)
  IN /\ schedules' = r.st.schedules
     /\ last' = Call("ensure_initial_plan_schedule", r.created,
                     IgnoreNotCalled, NoNotCalled, FALSE)
     /\ moves' = {}
     /\ cycle' = NoCycle
     /\ UNCHANGED <<now, env, punishments, action_logs, deliveries,
                    failed_send, crashes, log_calls, system_paused,
                    commitments, policy, pc, configurations>>

(***************************************************************************)
(* process_plan_modal_submit at clock value t, for a modal with one task   *)
(* row.  schedule_id is the id carried in the modal's metadata (0 when it  *)
(* carries none), skip says that the task row is skipped, next_date and    *)
(* time_of_day are the answers for the next plan.                          *)
(***************************************************************************)
_resolve_relative_datetime(date_value, time_of_day, t) ==
  (Day(t) + (IF date_value = "tomorrow" THEN 1 ELSE 0)) * SecondsPerDay
  + time_of_day

process_plan_modal_submit_without_wash(st, user_id, schedule_id, skip, next_date, time_of_day, t) ==
  LET scheds == st.schedules
      opened == schedule_id # 0
                /\ schedule_id \in DOMAIN scheds
                /\ scheds[schedule_id].user_id = user_id
                /\ scheds[schedule_id].event_type = "plan"
      closed == IF opened
                THEN [scheds EXCEPT ![schedule_id].state = "done"]
                ELSE scheds
      reminded == IF skip THEN closed
                  ELSE Insert(closed,
                              Schedule(user_id, "remind",
                                       _resolve_relative_datetime(
                                         "today", time_of_day, t)))
      planned == Insert(reminded,
                        Schedule(user_id, "plan",
                                 _resolve_relative_datetime(
                                   next_date, time_of_day, t)))
  IN [st |-> [st EXCEPT !.schedules = planned], saved |-> TRUE,
      moves |-> IF opened THEN Move(scheds[schedule_id].state, "done")
                ELSE {}]

process_plan_modal_submit(st, user_id, schedule_id, skip, next_date, time_of_day, t) ==
  LET scheds == st.schedules
      opened == schedule_id # 0
                /\ schedule_id \in DOMAIN scheds
                /\ scheds[schedule_id].user_id = user_id
                /\ scheds[schedule_id].event_type = "plan"
      pending == {sid \in DOMAIN scheds :
                    scheds[sid].user_id = user_id
                    /\ scheds[sid].state = "pending"}
      washed == [sid \in DOMAIN scheds |->
                   IF sid \in pending
                   THEN [scheds[sid] EXCEPT !.state = "canceled"]
                   ELSE scheds[sid]]
      closed == IF opened
                THEN [washed EXCEPT ![schedule_id].state = "done"]
                ELSE washed
      reminded == IF skip THEN closed
                  ELSE Insert(closed,
                              Schedule(user_id, "remind",
                                       _resolve_relative_datetime(
                                         "today", time_of_day, t)))
      planned == Insert(reminded,
                        Schedule(user_id, "plan",
                                 _resolve_relative_datetime(
                                   next_date, time_of_day, t)))
      logs == IF opened /\ skip
              THEN st.action_logs (+) SetToBag({ActionLog(schedule_id, "NO")})
              ELSE st.action_logs
  IN IF uix_user_plan_date_active(planned)
     THEN [st |-> [st EXCEPT !.schedules = planned, !.action_logs = logs],
           saved |-> TRUE,
           moves |-> (IF pending = {} THEN {}
                      ELSE {<<"pending", "canceled">>})
                     \cup (IF opened
                           THEN Move(washed[schedule_id].state, "done")
                           ELSE {})]
     ELSE [st |-> st, saved |-> FALSE, moves |-> {}]

PlanTimes == {InitNow + Tick}

PlanSubmit(user_id, schedule_id, skip, next_date, time_of_day) ==
  LET r == process_plan_modal_submit(Store, user_id, schedule_id, skip,
                                     next_date, time_of_day, now)
  IN /\ Cardinality(DOMAIN schedules) + 2 <= MaxSchedules
     /\ schedule_id \in {0} \cup DOMAIN schedules
     /\ schedules' = r.st.schedules
     /\ action_logs' = r.st.action_logs
     /\ moves' = r.moves
     /\ cycle' = NoCycle
     /\ last' = Call("process_plan_modal_submit", schedule_id,
                     IgnoreNotCalled, NoNotCalled, ~r.saved)
     /\ UNCHANGED <<now, env, punishments, deliveries, failed_send, crashes,
                    log_calls, system_paused, commitments, policy, pc,
                    configurations>>

(***************************************************************************)
(* The worker loop on its own.  The store starts empty, with an answered   *)
(* PLAN of u1 from today or from yesterday, with a REMIND and a PLAN of u1 *)
(* that are both due, or with a REMIND of u1 that fell due six default     *)
(* ignore intervals ago; the commitments table and the configuration are   *)
(* fixed.                                                                  *)
(***************************************************************************)
EnvChoicesCycle ==
  {Env(Unset, Unset, Unset),
   [Env(Unset, Unset, Unset) EXCEPT !.RETRY_DELAY = Num(10)]}

TwoActive ==
  {Commitment("u2", TRUE, 1), Commitment("u1", TRUE, 2),
   Commitment("u2", FALSE, 3)}

CommitmentChoices == {{Commitment("u1", FALSE, 1)}, TwoActive}

AnsweredToday ==
  <<[Schedule("u1", "plan", InitNow - 3600) EXCEPT !.state = "done"]>>

AnsweredYesterday ==
  <<[Schedule("u1", "plan", InitNow - SecondsPerDay) EXCEPT !.state = "done"]>>

TwoDue ==
  <<Schedule("u1", "remind", InitNow), Schedule("u1", "plan", InitNow)>>

OverdueRemind ==
  <<Schedule("u1", "remind", InitNow - 6 * DefaultIgnoreInterval)>>

InitCycle ==
  /\ now = InitNow
  /\ env \in EnvChoicesCycle
  /\ system_paused \in BOOLEAN
  /\ commitments \in CommitmentChoices
  /\ schedules \in {<<>>, AnsweredToday, AnsweredYesterday, TwoDue,
                    OverdueRemind}
  /\ punishments = EmptyBag
  /\ action_logs = EmptyBag
  /\ deliveries = EmptyBag
  /\ failed_send = NoFailedSend
  /\ crashes = 0
  /\ log_calls = 0
  /\ last = NoCall
  /\ moves = {}
  /\ cycle = NoCycle
  /\ policy = NoPolicy
  /\ pc = [w \in Workers |-> Idle]
  /\ configurations = NoConfigurations

NextCycle ==
  \/ \E bootFails \in BOOLEAN, failing \in SUBSET (1..MaxSchedules),
        response \in SenderResponses : RunOnce(bootFails, failing, response)
  \/ Bootstrap
  \/ Advance

SpecCycle == InitCycle /\ [][NextCycle]_vars

(***************************************************************************)
(* The worker loop and the plan modal on one store, under the default      *)
(* configuration.                                                          *)
(***************************************************************************)
InitPlan ==
  /\ now = InitNow
  /\ env = Env(Unset, Unset, Unset)
  /\ system_paused = FALSE
  /\ commitments = TwoActive
  /\ schedules \in {<<>>, AnsweredToday}
  /\ punishments = EmptyBag
  /\ action_logs = EmptyBag
  /\ deliveries = EmptyBag
  /\ failed_send = NoFailedSend
  /\ crashes = 0
  /\ log_calls = 0
  /\ last = NoCall
  /\ moves = {}
  /\ cycle = NoCycle
  /\ policy = NoPolicy
  /\ pc = [w \in Workers |-> Idle]
  /\ configurations = NoConfigurations

NextPlan ==
  \/ \E bootFails \in BOOLEAN, failing \in SUBSET (1..MaxSchedules),
        response \in SenderResponses : RunOnce(bootFails, failing, response)
  \/ Bootstrap
  \/ \E user_id \in Users, schedule_id \in 0..MaxSchedules, skip \in BOOLEAN,
        next_date \in {"today", "tomorrow"}, time_of_day \in PlanTimes :
           PlanSubmit(user_id, schedule_id, skip, next_date, time_of_day)
  \/ AdvanceWithin(PlanHorizon)

SpecPlan == InitPlan /\ [][NextPlan]_vars

(***************************************************************************)
(* Two workers inside process_schedule on the same store, each with its    *)
(* own session, both past the commit that marks the schedule PROCESSING.   *)
(* detect_no_mode is split where the sessions meet the store: the lookup   *)
(* of an existing Punishment row, and the commit of the new row, which the *)
(* unique constraint uix_schedule_mode_count can reject with an            *)
(* IntegrityError.  detect_no_mode does not catch it, so it reaches the    *)
(* except branch of process_schedule.                                      *)
(***************************************************************************)
uix_schedule_mode_count(pun) ==
  \A r \in BagToSet(pun) :
     PunishmentRows(pun, r.schedule_id, r.mode, r.count) <= 1

NoModeLookup(w, sid) ==
  LET r == detect_no_mode(Store, sid, now)
      returns == \/ elapsed_seconds(schedules, sid, now) < timeout_remind
                 \/ yes_log(action_logs, sid)
                 \/ existing(punishments, sid, r.out.no_time)
      finished == mark_done(Store, sid)
  IN /\ pc[w].at = "idle"
     /\ schedules[sid].state = "processing"
     /\ IF returns
        THEN /\ schedules' = finished.schedules
             /\ pc' = pc
             /\ last' = Call("detect_no_mode", sid, IgnoreNotCalled, r.out,
                             FALSE)
             /\ moves' = Move("processing", finished.schedules[sid].state)
        ELSE /\ pc' = [pc EXCEPT ![w] = [at |-> "insert", sid |-> sid,
                                         no_time |-> r.out.no_time]]
             /\ last' = NoCall
             /\ moves' = {}
             /\ UNCHANGED schedules
     /\ UNCHANGED <<now, env, punishments, action_logs, deliveries,
                    failed_send, crashes, log_calls, cycleVars, policy,
                    configurations>>

NoModeCommit(w) ==
  LET sid == pc[w].sid
      no_time == pc[w].no_time
      added == punishments
               (+) SetToBag({Punishment(sid, calculate_no_punishment(no_time).mode,
                                        no_time, now)})
      finished == mark_done(Store, sid)
      failed == FailurePath(Store, sid, now)
  IN /\ pc[w].at = "insert"
     /\ RoomForPunishment
     /\ IF uix_schedule_mode_count(added)
        THEN /\ punishments' = added
             /\ schedules' = finished.schedules
             /\ last' = Call("detect_no_mode", sid, IgnoreNotCalled,
                             [called |-> TRUE, detected |-> TRUE,
                              no_time |-> no_time], FALSE)
             /\ moves' = Move(schedules[sid].state,
                              finished.schedules[sid].state)
        ELSE /\ punishments' = punishments
             /\ schedules' = failed.schedules
             /\ last' = Call("detect_no_mode", sid, IgnoreNotCalled,
                             NoNotCalled, TRUE)
             /\ moves' = Move(schedules[sid].state, "failed")
                         \cup Move("failed", failed.schedules[sid].state)
     /\ pc' = [pc EXCEPT ![w] = Idle]
     /\ UNCHANGED <<now, env, action_logs, deliveries, failed_send, crashes,
                    log_calls, cycleVars, policy, configurations>>

InitRace ==
  /\ now = InitNow
  /\ env \in EnvChoices
  /\ \E u2 \in Users :
        schedules =
          (1 :> [Schedule("u1", "plan", InitNow - 1800)
                   EXCEPT !.state = "processing"])
          @@ (2 :> [Schedule(u2, "remind", InitNow - 600)
                      EXCEPT !.state = "processing"])
  /\ punishments = EmptyBag
  /\ action_logs = EmptyBag
  /\ deliveries = EmptyBag
  /\ failed_send = NoFailedSend
  /\ crashes = 0
  /\ log_calls = 0
  /\ last = NoCall
  /\ moves = {}
  /\ system_paused = FALSE
  /\ commitments = {}
  /\ cycle = NoCycle
  /\ policy = NoPolicy
  /\ pc = [w \in Workers |-> Idle]
  /\ configurations = NoConfigurations

NextRace ==
  \/ \E w \in Workers, sid \in DOMAIN schedules : NoModeLookup(w, sid)
  \/ \E w \in Workers : NoModeCommit(w)
  \/ Advance

SpecRace == InitRace /\ [][NextRace]_vars

(***************************************************************************)
(* Two worker processes polling the same store, each inside run_once.  A   *)
(* worker's pass over one schedule is split where its session meets the    *)
(* store or the outside: the query of fetch_pending_schedules, the commit  *)
(* that marks the schedule PROCESSING, execute_script, and the rest of the *)
(* try block with its final commit.  pc[w].at = "ran" says that worker w   *)
(* has run the script of pc[w].sid and has not yet finished the schedule.  *)
(***************************************************************************)
FetchPendingSchedules(w, sid) ==
  /\ pc[w].at = "idle"
  /\ sid \in fetch_pending_schedules(schedules, now)
  /\ pc' = [pc EXCEPT ![w] = [at |-> "fetched", sid |-> sid, no_time |-> 0]]
  /\ last' = NoCall
  /\ moves' = {}
  /\ UNCHANGED <<now, env, schedules, punishments, action_logs, deliveries,
                 failed_send, crashes, log_calls, cycleVars, policy,
                 configurations>>

MarkProcessing(w) ==
  LET sid == pc[w].sid
  IN /\ pc[w].at = "fetched"
     /\ schedules' = [schedules EXCEPT ![sid].state = "processing"]
     /\ pc' = [pc EXCEPT ![w].at = "marked"]
     /\ last' = NoCall
     /\ moves' = Move(schedules[sid].state, "processing")
     /\ UNCHANGED <<now, env, punishments, action_logs, deliveries,
                    failed_send, crashes, log_calls, cycleVars, policy,
                    configurations>>

ExecuteScript(w, scriptOk) ==
  LET sid == pc[w].sid
      failed == FailurePath(Store, sid, now)
  IN /\ pc[w].at = "marked"
     /\ IF scriptOk
        THEN /\ pc' = [pc EXCEPT ![w].at = "ran"]
             /\ last' = Call("execute_script", sid, IgnoreNotCalled,
                             NoNotCalled, FALSE)
             /\ moves' = {}
             /\ UNCHANGED schedules
        ELSE /\ pc' = [pc EXCEPT ![w] = Idle]
             /\ schedules' = failed.schedules
             /\ last' = Call("execute_script", sid, IgnoreNotCalled,
                             NoNotCalled, TRUE)
             /\ moves' = Move(schedules[sid].state, "failed")
                         \cup Move("failed", failed.schedules[sid].state)
     /\ UNCHANGED <<now, env, punishments, action_logs, deliveries,
                    failed_send, crashes, log_calls, cycleVars, policy,
                    configurations>>

FinishSchedule(w, response) ==
  LET sid == pc[w].sid
      ig == detect_ignore_mode(Store, sid, now, response, FALSE)
      nm == detect_no_mode(ig.st, sid, now)
      st3 == mark_done(nm.st, sid)
  IN /\ pc[w].at = "ran"
     /\ RoomForPunishment
     /\ schedules' = st3.schedules
     /\ punishments' = st3.punishments
     /\ action_logs' = st3.action_logs
     /\ deliveries' = Delivered(ig.out, sid)
     /\ failed_send' = FailedSend(ig.out, sid)
     /\ pc' = [pc EXCEPT ![w] = Idle]
     /\ last' = Call("process_schedule", sid, ig.out, nm.out, FALSE)
     /\ moves' = Move(schedules[sid].state, nm.st.schedules[sid].state)
                 \cup Move(nm.st.schedules[sid].state,
                           st3.schedules[sid].state)
     /\ UNCHANGED <<now, env, crashes, log_calls, cycleVars, policy,
                    configurations>>

(***************************************************************************)
(* Both schedules of the initial store are due and belong to u1; the       *)
(* environment sets the cap to 1 and the max-retry to 2; the clock moves   *)
(* on by one tick.                                                         *)
(***************************************************************************)
InitFetch ==
  /\ Init
  /\ env = Env(Unset, Num(2), Num(1))
  /\ \A sid \in DOMAIN schedules : schedules[sid].user_id = "u1"

NextFetch ==
  \/ \E w \in Workers, sid \in DOMAIN schedules : FetchPendingSchedules(w, sid)
  \/ \E w \in Workers : MarkProcessing(w)
  \/ \E w \in Workers, scriptOk \in BOOLEAN : ExecuteScript(w, scriptOk)
  \/ \E w \in Workers, response \in SenderResponses :
        FinishSchedule(w, response)
  \/ AdvanceWithin(Tick)

SpecFetch == InitFetch /\ [][NextFetch]_vars

(***************************************************************************)
(* The detectors called on a schedule that has gone unanswered for nine    *)
(* default intervals, with ignore-max-retry at its default or raised to 9 *)
(* or 10.                                                                  *)
(***************************************************************************)
EnvChoicesLate ==
  {Env(Unset, Unset, Unset), Env(Unset, Num(9), Unset), Env(Unset, Num(10), Unset)}

InitLate ==
  /\ now = InitNow
  /\ env \in EnvChoicesLate
  /\ \E state \in {"pending", "processing"} :
        schedules =
          (1 :> [Schedule("u1", "plan", InitNow - 9 * DefaultIgnoreInterval)
                   EXCEPT !.state = state])
  /\ punishments = EmptyBag
  /\ action_logs = EmptyBag
  /\ deliveries = EmptyBag
  /\ failed_send = NoFailedSend
  /\ crashes = 0
  /\ log_calls = 0
  /\ last = NoCall
  /\ moves = {}
  /\ system_paused = FALSE
  /\ commitments = {}
  /\ cycle = NoCycle
  /\ policy = NoPolicy
  /\ pc = [w \in Workers |-> Idle]
  /\ configurations = NoConfigurations

SpecLate == InitLate /\ [][NextDetect]_vars

(***************************************************************************)
(* The punishment policy called on its own with a trigger index.           *)
(***************************************************************************)
PolicyCall(fn, n, type, value) ==
  [fn |-> fn, arg |-> n, type |-> type, value |-> value,
   prev_fn |-> policy.fn, prev_arg |-> policy.arg, prev_value |-> policy.value]

CalculateIgnore(n) ==
  LET r == calculate_ignore_punishment(n)
  IN /\ policy' = PolicyCall("ignore", n, r.type, r.value)
     /\ UNCHANGED <<now, env, schedules, punishments, action_logs, deliveries,
                    failed_send, crashes, log_calls, last, moves, cycleVars, pc,
                    configurations>>

CalculateNo(n) ==
  LET r == calculate_no_punishment(n)
  IN /\ policy' = PolicyCall("no", n, r.mode, r.value)
     /\ UNCHANGED <<now, env, schedules, punishments, action_logs, deliveries,
                    failed_send, crashes, log_calls, last, moves, cycleVars, pc,
                    configurations>>

NextPolicy ==
  \/ \E n \in 1..MaxIndex : CalculateIgnore(n)
  \/ \E n \in 1..MaxIndex : CalculateNo(n)

SpecPolicy == Init /\ [][NextPolicy]_vars

(***************************************************************************)
(* Vocabulary of the properties.  A step is a call of an operation on a    *)
(* schedule when it is a step of the operation's action; the record of     *)
(* the call in last' is tested first, which settles most steps without     *)
(* evaluating the action.                                                  *)
(***************************************************************************)
IgnoreCall(sid) ==
  /\ last'.op = "detect_ignore_mode" /\ last'.sid = sid
  /\ \E response \in SenderResponses, crash \in BOOLEAN :
        DetectIgnore(sid, response, crash)

FailingIgnoreCall(sid) ==
  /\ last'.op = "detect_ignore_mode" /\ last'.sid = sid
  /\ \E response \in {"failure", "exception"}, crash \in BOOLEAN :
        DetectIgnore(sid, response, crash)

NoModeCall(sid) ==
  /\ last'.op = "detect_no_mode" /\ last'.sid = sid
  /\ DetectNo(sid)

Elapsed(sid) == now - schedules[sid].run_at

IgnoreIndex(sid) == Elapsed(sid) \div config_interval

NoIndex(sid) == Elapsed(sid) \div timeout_remind

IgnoreRowCount(pun, sid, k) ==
  BagCardinality([r \in {q \in BagToSet(pun) :
                           q.schedule_id = sid /\ q.mode = "ignore" /\ q.count = k}
                  |-> pun[r]])

NoRowCount(pun, sid, k) ==
  BagCardinality([r \in {q \in BagToSet(pun) :
                           q.schedule_id = sid /\ q.mode = "no" /\ q.count = k}
                  |-> pun[r]])

LogCount(logs, sid, result) ==
  BagCardinality([r \in {q \in BagToSet(logs) :
                           q.schedule_id = sid /\ q.result = result}
                  |-> logs[r]])

Qualifying(r) == r.mode = "no" \/ (r.mode = "ignore" /\ r.count >= 2)

QualifyingCount(pun, user_id, day) ==
  BagCardinality([r \in {q \in BagToSet(pun) :
                           /\ schedules[q.schedule_id].user_id = user_id
                           /\ q.created_at = day
                           /\ Qualifying(q)}
                  |-> pun[r]])

\* C1: a detect_ignore_mode call for a schedule whose current trigger index
\* already has a Punishment(IGNORE, index) row (an earlier call at this index
\* delivered and recorded it) does not invoke the sender, delivers nothing,
\* returns detected=true with that index and leaves exactly one such row.
C1_IgnoreReplayIdempotent ==
  [][\A sid \in DOMAIN schedules :
       (/\ IgnoreCall(sid)
        /\ Elapsed(sid) >= config_interval
        /\ IgnoreRowCount(punishments, sid, IgnoreIndex(sid)) > 0)
       => /\ IgnoreRowCount(punishments', sid, IgnoreIndex(sid)) = 1
          /\ punishments' = punishments
          /\ last'.ig.send = "none"
          /\ deliveries' = deliveries
          /\ last'.ig.detected
          /\ last'.ig.ignore_time = IgnoreIndex(sid)]_vars

C1_Witness ==
  /\ last.op = "detect_ignore_mode"
  /\ last.repeat
  /\ last.ig.detected
  /\ last.ig.send = "none"
  /\ last.ig.ignore_time >= 1
  /\ IgnoreRowCount(punishments, last.sid, last.ig.ignore_time) = 1
  /\ CopiesIn(<<last.sid, last.ig.ignore_time>>, deliveries) = 1

\* C2: for every schedule and every ignore trigger index the stimulus sender
\* succeeds at most once, also when the process dies between the successful
\* send and the commit of the Punishment row and the schedule is polled again.
C2_AtMostOneDelivery ==
  \A d \in BagToSet(deliveries) : CopiesIn(d, deliveries) <= 1

\* C3: with the daily cap at 1 and a qualifying Punishment recorded today on
\* another schedule of the same owner, a zap-level ignore trigger (index >= 2,
\* within max-retry, not yet recorded) returns detected=true, does not call
\* the sender, persists no Punishment row and leaves the schedule unchanged.
CappedByOtherSchedule(sid) ==
  \E r \in BagToSet(punishments) :
     /\ r.schedule_id # sid
     /\ schedules[r.schedule_id].user_id = schedules[sid].user_id
     /\ r.created_at = Day(now)
     /\ Qualifying(r)

C3_CapSkipsZap ==
  [][\A sid \in DOMAIN schedules :
       (/\ IgnoreCall(sid)
        /\ zap_limit = 1
        /\ IgnoreIndex(sid) >= 2
        /\ IgnoreIndex(sid) <= ignore_max_retry
        /\ IgnoreRowCount(punishments, sid, IgnoreIndex(sid)) = 0
        /\ CappedByOtherSchedule(sid))
       => /\ last'.ig.detected
          /\ last'.ig.ignore_time = IgnoreIndex(sid)
          /\ last'.ig.send = "none"
          /\ deliveries' = deliveries
          /\ punishments' = punishments
          /\ action_logs' = action_logs
          /\ schedules' = schedules]_vars

C3_Witness ==
  /\ last.op = "detect_ignore_mode"
  /\ last.ig.detected
  /\ last.ig.send = "none"
  /\ zap_limit = 1
  /\ last.ig.ignore_time >= 2
  /\ last.ig.ignore_time <= ignore_max_retry
  /\ IgnoreRowCount(punishments, last.sid, last.ig.ignore_time) = 0
  /\ CappedByOtherSchedule(last.sid)
  /\ schedules[last.sid].state = "pending"

\* C4: in every reachable state, for each owner and each calendar day, the
\* number of qualifying punishments recorded that day (NO-mode rows plus
\* IGNORE-mode rows with index >= 2, over all the owner's schedules) does not
\* exceed the configured daily cap.
C4_DailyCapHolds ==
  \A u \in Users : \A day \in Day(InitNow)..Day(MaxTime) :
     QualifyingCount(punishments, u, day) <= zap_limit

ProcessFails(sid) ==
  /\ last'.op = "process_schedule" /\ last'.sid = sid /\ last'.raised
  /\ \E response \in SenderResponses, crash \in BOOLEAN :
        ProcessSchedule(sid, FALSE, response, crash)

C6_MaxRetryCancelsOnce ==
  [][\A sid \in DOMAIN schedules :
       (/\ IgnoreCall(sid)
        /\ Elapsed(sid) >= config_interval
        /\ IgnoreIndex(sid) > ignore_max_retry)
       => /\ schedules'[sid].state = "canceled"
          /\ last'.ig.detected
          /\ last'.ig.send = "none"
          /\ deliveries' = deliveries
          /\ punishments' = punishments
          /\ LogCount(action_logs', sid, "AUTO_IGNORE") = 1]_vars

C6_Witness ==
  /\ last.op = "detect_ignore_mode"
  /\ last.repeat
  /\ last.ig.ignore_time > ignore_max_retry
  /\ last.ig.detected
  /\ schedules[last.sid].state = "canceled"
  /\ LogCount(action_logs, last.sid, "AUTO_IGNORE") = 1
  /\ IgnoreRowCount(punishments, last.sid, last.ig.ignore_time) = 0

\* C7: when the stimulus sender is invoked and raises or reports failure,
\* detect_ignore_mode returns detected=false with the computed trigger index,
\* persists no Punishment row, writes no ActionLog, leaves the schedule as it
\* was, and a following call at the same index invokes the sender again.
C7_FailedSendLeavesNoTrace ==
  [][\A sid \in DOMAIN schedules :
       (FailingIgnoreCall(sid) /\ last'.ig.send # "none")
       => /\ ~last'.ig.detected
          /\ last'.ig.ignore_time = IgnoreIndex(sid)
          /\ IgnoreIndex(sid) >= 1
          /\ punishments' = punishments
          /\ action_logs' = action_logs
          /\ schedules' = schedules
          /\ deliveries' = deliveries
          /\ detect_ignore_mode([schedules |-> schedules',
                                 punishments |-> punishments',
                                 action_logs |-> action_logs'],
                                sid, now', "success", FALSE).out.delivered]_vars

C7_Witness ==
  /\ last.op = "detect_ignore_mode"
  /\ last.ig.send = "failed"
  /\ ~last.ig.detected
  /\ last.ig.ignore_time >= 1
  /\ failed_send = <<last.sid, last.ig.ignore_time>>
  /\ IgnoreRowCount(punishments, last.sid, last.ig.ignore_time) = 0

LaterIndexRecorded(sid, k) ==
  \E r \in BagToSet(punishments) :
     r.schedule_id = sid /\ r.mode = "ignore" /\ r.count > k

\* C8 (as claimed): no ignore trigger is lost: an index whose delivery failed
\* keeps being re-attempted until it is delivered, so once a later index of
\* the schedule has a Punishment(IGNORE) row the failed index has one too.
C8_NoTriggerLost ==
  failed_send # NoFailedSend
  => (LaterIndexRecorded(failed_send[1], failed_send[2])
      => IgnoreRowCount(punishments, failed_send[1], failed_send[2]) > 0)

\* C8 (amended): detect_ignore_mode only ever invokes the sender and writes a
\* Punishment row for the current index floor(elapsed / interval); an index
\* whose delivery failed is attempted again by a call made while the elapsed
\* time still gives that index (within max-retry and under the daily cap),
\* and is not attempted any more once the elapsed time gives a later index.
C8_OnlyCurrentIndexAttempted ==
  [][\A sid \in DOMAIN schedules :
       IgnoreCall(sid)
       => /\ last'.ig.send # "none" => last'.ig.ignore_time = IgnoreIndex(sid)
          /\ \A r \in BagToSet(punishments') :
                CopiesIn(r, punishments') > CopiesIn(r, punishments)
                => r = Punishment(sid, "ignore", IgnoreIndex(sid), now)
          /\ (/\ failed_send = <<sid, IgnoreIndex(sid)>>
              /\ IgnoreIndex(sid) <= ignore_max_retry
              /\ \/ IgnoreIndex(sid) = 1
                 \/ QualifyingCount(punishments, schedules[sid].user_id,
                                    Day(now)) < zap_limit)
             => last'.ig.send # "none"]_vars

C8_Witness ==
  /\ failed_send # NoFailedSend
  /\ LaterIndexRecorded(failed_send[1], failed_send[2])
  /\ IgnoreRowCount(punishments, failed_send[1], failed_send[2]) = 0
  /\ last.op = "detect_ignore_mode"
  /\ last.ig.send = "sent"

SuccessfulIgnoreCall(sid) ==
  /\ last'.op = "detect_ignore_mode" /\ last'.sid = sid
  /\ DetectIgnore(sid, "success", FALSE)

ProcessCompletes(sid) ==
  /\ last'.op = "process_schedule" /\ last'.sid = sid
  /\ ~last'.raised /\ ~last'.ig.crashed
  /\ \E response \in SenderResponses, crash \in BOOLEAN :
        ProcessSchedule(sid, TRUE, response, crash)

\* C19 (as claimed): after process_schedule completes without an exception, a
\* PLAN schedule is in state PROCESSING and a REMIND schedule is in state DONE.
C19_PlanProcessingRemindDone ==
  [][\A sid \in DOMAIN schedules :
       ProcessCompletes(sid)
       => IF schedules[sid].event_type = "plan"
          THEN schedules'[sid].state = "processing"
          ELSE schedules'[sid].state = "done"]_vars

\* C19 (amended): after process_schedule completes without an exception, a
\* REMIND schedule is DONE; a PLAN schedule is PROCESSING unless the ignore
\* detector auto-canceled it during the call (trigger index above max-retry,
\* or a delivered zap of intensity 100), and then it is CANCELED.
C19_PlanProcessingUnlessCanceled ==
  [][\A sid \in DOMAIN schedules :
       ProcessCompletes(sid)
       => IF schedules[sid].event_type = "plan"
          THEN IF \/ last'.ig.ignore_time > ignore_max_retry
                  \/ /\ last'.ig.send = "sent"
                     /\ last'.ig.type = "zap" /\ last'.ig.value >= 100
               THEN schedules'[sid].state = "canceled"
               ELSE schedules'[sid].state = "processing"
          ELSE schedules'[sid].state = "done"]_vars

C19_Witness ==
  /\ last.op = "process_schedule" /\ ~last.raised /\ ~last.ig.crashed
  /\ schedules[last.sid].event_type = "plan"
  /\ schedules[last.sid].state = "canceled"
  /\ last.ig.ignore_time > ignore_max_retry

\* C15 (as claimed): for trigger indices 1 through 10 the intensities returned
\* by calculate_ignore_punishment are non-decreasing in the index and never
\* exceed 100.
C15_NonDecreasingFromOne ==
  policy.fn = "ignore"
  => /\ policy.value <= 100
     /\ (policy.prev_fn = "ignore" /\ policy.prev_arg <= policy.arg)
        => policy.prev_value <= policy.value

\* C15 (amended): index 1 is a vibration of intensity 100 and every index from
\* 2 on is a zap; the zap intensities are non-decreasing in the index from
\* index 2 on, and no intensity for an index 1 through 10 exceeds 100.
C15_NonDecreasingFromTwo ==
  policy.fn = "ignore"
  => /\ policy.value <= 100
     /\ policy.arg = 1 => (policy.type = "vibe" /\ policy.value = 100)
     /\ policy.arg >= 2 => policy.type = "zap"
     /\ (policy.prev_fn = "ignore" /\ 2 <= policy.prev_arg
                                  /\ policy.prev_arg <= policy.arg)
        => policy.prev_value <= policy.value

C15_Witness ==
  /\ policy.fn = "ignore" /\ policy.prev_fn = "ignore"
  /\ policy.prev_arg = 2 /\ policy.prev_value = 35
  /\ policy.arg = 10 /\ policy.value = 100

C17_BootstrapInsertsExactlyWhenDue ==
  [][last'.op = "ensure_initial_plan_schedule" /\ Bootstrap
     => LET active == {c \in commitments : c.active}
            owner == (CHOOSE c \in active :
                        \A d \in active : d.updated_at <= c.updated_at).user_id
            new == Cardinality(DOMAIN schedules) + 1
        IN IF /\ \A sid \in DOMAIN schedules :
                    schedules[sid].state \notin {"pending", "processing"}
              /\ active # {}
              /\ \A sid \in DOMAIN schedules :
                    ~(/\ schedules[sid].user_id = owner
                      /\ schedules[sid].event_type = "plan"
                      /\ Day(schedules[sid].run_at) = Day(now))
           THEN /\ DOMAIN schedules' = DOMAIN schedules \cup {new}
                /\ \A sid \in DOMAIN schedules :
                      schedules'[sid] = schedules[sid]
                /\ schedules'[new].user_id = owner
                /\ schedules'[new].event_type = "plan"
                /\ schedules'[new].state = "pending"
                /\ schedules'[new].run_at = now
                /\ schedules'[new].retry_count = 0
                /\ last'.sid = new
           ELSE schedules' = schedules /\ last'.sid = 0]_vars

C17_Witness ==
  /\ last.op = "ensure_initial_plan_schedule"
  /\ last.sid = 2
  /\ schedules[1].user_id = schedules[2].user_id
  /\ schedules[1].event_type = "plan" /\ schedules[1].state = "done"
  /\ Day(schedules[1].run_at) # Day(now)
  /\ schedules[2].state = "pending" /\ schedules[2].run_at = now

\* C11: when the system-paused flag is true, a run_once cycle bootstraps
\* nothing, fetches nothing and processes nothing, and leaves every schedule,
\* Punishment and ActionLog as it was.
C11_PausedCycleDoesNothing ==
  [][(system_paused /\ last'.op = "run_once")
     => /\ cycle'.boot = 0
        /\ cycle'.fetched = {}
        /\ cycle'.processed = {}
        /\ UNCHANGED <<schedules, punishments, action_logs>>]_vars

\* C18: no failure escapes run_once or cuts the cycle short: after a bootstrap
\* failure the store is as before the bootstrap and every due schedule is
\* still fetched and processed, and every schedule fetched in a cycle is
\* processed in that cycle even when processing another one raised.
C18_CycleNeverCutShort ==
  [][last'.op = "run_once"
     => /\ ~last'.raised
        /\ cycle'.processed = cycle'.fetched
        /\ cycle'.boot_failed
           => /\ cycle'.boot = 0
              /\ DOMAIN schedules' = DOMAIN schedules
              /\ cycle'.fetched = fetch_pending_schedules(schedules, now)]_vars

C13_OnlyLifecycleMoves ==
  moves \subseteq {<<"pending", "processing">>, <<"processing", "done">>,
                   <<"processing", "failed">>, <<"processing", "canceled">>,
                   <<"failed", "pending">>}

\* C20: when a worker's insert of a Punishment (schedule, mode, trigger
\* index) is rejected by the unique constraint because another worker's row
\* is already there, the detector call completes normally and the schedule is
\* neither FAILED nor has its retry_count incremented.
C20_RaceLoserCompletesNormally ==
  [][\A w \in Workers :
       (/\ pc[w].at = "insert" /\ pc'[w].at = "idle"
        /\ PunishmentRows(punishments, pc[w].sid, "no", pc[w].no_time) > 0)
       => /\ ~last'.raised
          /\ schedules'[pc[w].sid].state # "failed"
          /\ schedules'[pc[w].sid].retry_count
             = schedules[pc[w].sid].retry_count]_vars

\* C30: a detect_no_mode call delivers nothing, writes no ActionLog and
\* leaves every schedule (state and retry_count included) as it was; it either
\* leaves the Punishment table unchanged or adds exactly one row, of mode NO,
\* for the called schedule.
C30_NoModeFrame ==
  [][\A sid \in DOMAIN schedules :
       NoModeCall(sid)
       => /\ schedules' = schedules
          /\ action_logs' = action_logs
          /\ deliveries' = deliveries
          /\ failed_send' = failed_send
          /\ \/ punishments' = punishments
             \/ \E k \in 1..(Elapsed(sid) \div DefaultTimeoutRemind) :
                   punishments' = punishments
                     (+) SetToBag({[schedule_id |-> sid, mode |-> "no",
                                    count |-> k, created_at |-> Day(now)]})]_vars

C30_Witness ==
  /\ last.op = "detect_no_mode"
  /\ last.nm.detected
  /\ NoRowCount(punishments, last.sid, last.nm.no_time) = 1
  /\ ~last.repeat
  /\ schedules[last.sid].state = "pending"
  /\ schedules[last.sid].retry_count = 0

\* C25: a detect_ignore_mode call with a succeeding sender, at trigger index
\* k = floor(elapsed / interval) with 1 <= k <= max-retry, no
\* Punishment(IGNORE, k) row and the owner's daily cap not reached, delivers
\* exactly one stimulus, the policy's for k (vibe 100 for k = 1, zap 35 for
\* k = 2, ten more per further index up to 100), adds exactly one
\* Punishment(IGNORE, k) row and returns detected=true with index k; a call
\* with elapsed < interval returns detected=false with index 0 and changes
\* nothing.
C25_DeliversPolicyStimulusOnce ==
  [][\A sid \in DOMAIN schedules :
       SuccessfulIgnoreCall(sid)
       => LET k == Elapsed(sid) \div config_interval
          IN IF Elapsed(sid) < config_interval
             THEN /\ ~last'.ig.detected /\ last'.ig.ignore_time = 0
                  /\ last'.ig.send = "none"
                  /\ UNCHANGED <<schedules, punishments, action_logs,
                                 deliveries>>
             ELSE (/\ k >= 1 /\ k <= ignore_max_retry
                   /\ IgnoreRowCount(punishments, sid, k) = 0
                   /\ QualifyingCount(punishments, schedules[sid].user_id,
                                      Day(now)) < zap_limit)
                  => /\ last'.ig.detected /\ last'.ig.ignore_time = k
                     /\ last'.ig.send = "sent"
                     /\ last'.ig.type = (IF k = 1 THEN "vibe" ELSE "zap")
                     /\ last'.ig.value
                        = (IF k = 1 THEN 100
                           ELSE IF 35 + 10 * (k - 2) > 100 THEN 100
                           ELSE 35 + 10 * (k - 2))
                     /\ deliveries' = deliveries (+) SetToBag({<<sid, k>>})
                     /\ punishments' = punishments
                          (+) SetToBag({[schedule_id |-> sid, mode |-> "ignore",
                                         count |-> k, created_at |-> Day(now)]})]_vars

C25_Witness ==
  /\ last.op = "detect_ignore_mode"
  /\ last.ig.detected /\ last.ig.ignore_time = 2
  /\ last.ig.send = "sent" /\ last.ig.type = "zap" /\ last.ig.value = 35
  /\ IgnoreRowCount(punishments, last.sid, 2) = 1
  /\ BagIn(<<last.sid, 2>>, deliveries)
  /\ CopiesIn(<<last.sid, 2>>, deliveries) = 1

\* C29: a detect_ignore_mode call for a schedule that the ignore detector
\* has auto-canceled before (it has an AUTO_IGNORE ActionLog) does not call
\* the sender and adds no Punishment row.
C29_NoStimulusAfterAutoCancel ==
  [][\A sid \in DOMAIN schedules :
       (IgnoreCall(sid) /\ LogCount(action_logs, sid, "AUTO_IGNORE") > 0)
       => /\ last'.ig.send = "none"
          /\ deliveries' = deliveries
          /\ punishments' = punishments]_vars

\* C28: in every reachable state a schedule that has an AUTO_IGNORE
\* ActionLog is CANCELED.
C28_AutoIgnoredStaysCanceled ==
  \A sid \in DOMAIN schedules :
     LogCount(action_logs, sid, "AUTO_IGNORE") > 0
     => schedules[sid].state = "canceled"

\* C26: a run_once cycle processes only schedules that were PENDING with
\* run_at <= now when the cycle fetched (the schedule it bootstrapped itself
\* included), and a schedule it leaves PENDING was put back by the failure
\* path with run_at = now + 5 minutes and retry_count one higher; so a
\* rescheduled schedule is not processed again before its new run_at.
C26_RetryWaitsForFireTime ==
  [][last'.op = "run_once"
     => \A sid \in cycle'.processed :
          /\ \/ /\ sid \in DOMAIN schedules
                /\ schedules[sid].state = "pending"
                /\ schedules[sid].run_at <= now
             \/ /\ sid = cycle'.boot
                /\ sid \notin DOMAIN schedules
          /\ schedules'[sid].state = "pending"
             => /\ schedules'[sid].run_at = now + 5 * 60
                /\ schedules'[sid].retry_count
                   = (IF sid \in DOMAIN schedules
                      THEN schedules[sid].retry_count ELSE 0) + 1]_vars

C26_Witness ==
  /\ last.op = "run_once"
  /\ \E sid \in DOMAIN schedules :
        /\ schedules[sid].state = "pending"
        /\ schedules[sid].retry_count = 1
        /\ schedules[sid].run_at > now
        /\ sid \notin cycle.fetched

C23_StoredCapUsedAtNextCall ==
  [][\A sid \in DOMAIN schedules :
       (/\ IgnoreCall(sid)
        /\ IgnoreIndex(sid) >= 2
        /\ IgnoreIndex(sid) <= ignore_max_retry
        /\ IgnoreRowCount(punishments, sid, IgnoreIndex(sid)) = 0
        /\ configurations[schedules[sid].user_id].kind = "num")
       => (last'.ig.send = "none"
           <=> QualifyingCount(punishments, schedules[sid].user_id, Day(now))
               >= configurations[schedules[sid].user_id].n)]_vars

\* C24: no two workers have both run the script of the same schedule after
\* picking it up in the same PENDING episode.
C24_SideEffectOncePerEpisode ==
  \A w1, w2 \in Workers :
     (/\ pc[w1].at = "ran" /\ pc[w2].at = "ran"
      /\ pc[w1].sid = pc[w2].sid)
     => w1 = w2

\* C21: for a schedule that the worker has posted and left PROCESSING and
\* that nobody answered, on an uncapped day, the worker loop eventually has
\* delivered exactly one stimulus for the trigger index the schedule has
\* reached (an index from 1 to max-retry): again and again the loop is in a
\* state where no such delivery is outstanding.
C21_EventuallyDeliversEachInterval ==
  []<>(\A sid \in DOMAIN schedules :
         (/\ schedules[sid].state = "processing"
          /\ LogCount(action_logs, sid, "YES") = 0
          /\ LogCount(action_logs, sid, "NO") = 0
          /\ IgnoreIndex(sid) >= 1
          /\ IgnoreIndex(sid) <= ignore_max_retry
          /\ QualifyingCount(punishments, schedules[sid].user_id, Day(now))
             < zap_limit)
         => CopiesIn(<<sid, IgnoreIndex(sid)>>, deliveries) = 1)

\* C22: when the worker's detect_ignore_mode call for a schedule skipped a
\* zap-level trigger because the owner's daily cap was reached, a stimulus for
\* that schedule is eventually delivered.
C22_CappedTriggerEventuallyFires ==
  \A sid \in 1..MaxSchedules :
     (/\ sid \in DOMAIN schedules
      /\ last.op = "process_schedule" /\ last.sid = sid
      /\ last.ig.detected /\ last.ig.send = "none"
      /\ last.ig.ignore_time >= 2
      /\ last.ig.ignore_time <= ignore_max_retry
      /\ IgnoreRowCount(punishments, sid, last.ig.ignore_time) = 0
      /\ CappedByOtherSchedule(sid))
     ~> (\E k \in 1..MaxIndex : BagIn(<<sid, k>>, deliveries))

TypeOK ==
  /\ now \in InitNow..MaxTime
  /\ \A sid \in DOMAIN schedules : schedules[sid].state \in ScheduleState

====
